---- MODULE Spec2Model ----
(***************************************************************************)
(* A model of aiokef.py: the KEF speaker protocol codec, the connection    *)
(* manager with its idle watchdog (_AsyncCommunicator), the retrying       *)
(* command transport (send_message) and the speaker controller             *)
(* (AsyncKefSpeaker).                                                      *)
(*                                                                         *)
(* Time is counted in ticks of half a second, the period of the watchdog   *)
(* (asyncio.sleep(0.5) in _disconnect_if_passive).  Python's None is       *)
(* written 0 where it stands for "no standby" and for "no connection".     *)
(***************************************************************************)
EXTENDS Integers, Sequences, FiniteSets, TLC

----------------------------------------------------------------------------
(* Module constants, aiokef.py lines 17-23 and 51-56.                      *)

_RESPONSE_OK == 17

HalfSeconds(s) == 2 * s

_TIMEOUT == HalfSeconds(2)

_KEEP_ALIVE == HalfSeconds(1)

_VOLUME_SCALE == 100

_MAX_ATTEMPT_TILL_SUCCESS == 10

_MAX_SEND_MESSAGE_TRIES == 5

_MAX_CONNECTION_RETRIES == 10

_SET_START == 83

_SET_MID == 129

_GET_MID == 128

_GET_START == 71

_SOURCE == 48

_VOL == 37

\* ord("R"), the marker byte that starts every frame of a reply
_R == 82

----------------------------------------------------------------------------
(* The source tables, aiokef.py lines 28-49.                               *)

\* the keys of INPUT_SOURCES_20_MINUTES_LR in insertion order
SourceNames == <<"Bluetooth", "Bluetooth_paired", "Aux", "Opt", "Usb", "Wifi">>

Range(seq) == {seq[i] : i \in 1..Len(seq)}

INPUT_SOURCES_20_MINUTES_LR(source) ==
    CASE source = "Bluetooth" -> 9
      [] source = "Bluetooth_paired" -> 15
      [] source = "Aux" -> 10
      [] source = "Opt" -> 11
      [] source = "Usb" -> 12
      [] source = "Wifi" -> 2

\* in minutes; 0 stands for None, never standby
STANDBY_OPTIONS == <<20, 60, 0>>

\* enumerate(): the 0-based position of x in seq
Enumerate(seq, x) == (CHOOSE i \in 1..Len(seq) : seq[i] = x) - 1

\* a mapping with the standby times 8 apart instead of 16
LR_mapping8(code) ==
    [t \in Range(STANDBY_OPTIONS) |-> code + Enumerate(STANDBY_OPTIONS, t) * 8]

LR_mapping(code) ==
    [t \in Range(STANDBY_OPTIONS) |-> code + Enumerate(STANDBY_OPTIONS, t) * 16]

\* INPUT_SOURCES[source][t] is the pair (L/R code, R/L code)
INPUT_SOURCES(source) ==
    [t \in Range(STANDBY_OPTIONS) |->
        <<LR_mapping(INPUT_SOURCES_20_MINUTES_LR(source))[t],
          LR_mapping(INPUT_SOURCES_20_MINUTES_LR(source))[t] + 64>>]

\* source.replace("_paired", "") on the names of the table
ReplacePaired(source) ==
    IF source = "Bluetooth_paired" THEN "Bluetooth" ELSE source

\* d[k] = v of a Python dict: a later assignment overwrites an earlier one
DictPut(d, k, v) == [c \in DOMAIN d \cup {k} |-> IF c = k THEN v ELSE d[c]]

\* the inner loop of lines 47-49 over STANDBY_OPTIONS[j..], for one source
RECURSIVE ResponseOfSource(_, _, _)
ResponseOfSource(d, source, j) ==
    IF j > Len(STANDBY_OPTIONS) THEN d
    ELSE LET t == STANDBY_OPTIONS[j]
             LR == INPUT_SOURCES(source)[t][1]
             RL == INPUT_SOURCES(source)[t][2]
             name == ReplacePaired(source)
         IN ResponseOfSource(
                DictPut(DictPut(d, LR, <<name, t, "L/R">>), RL, <<name, t, "R/L">>),
                source, j + 1)

\* the outer loop of lines 45-49 over SourceNames[i..]
RECURSIVE ResponseTable(_, _)
ResponseTable(d, i) ==
    IF i > Len(SourceNames) THEN d
    ELSE ResponseTable(ResponseOfSource(d, SourceNames[i], 1), i + 1)

INPUT_SOURCES_RESPONSE == ResponseTable(<<>>, 1)

----------------------------------------------------------------------------
(* COMMANDS, aiokef.py lines 58-63: the bytes of each command.             *)

COMMANDS_set_volume(volume) == <<_SET_START, _VOL, _SET_MID, volume>>

COMMANDS_set_source(i) == <<_SET_START, _SOURCE, _SET_MID, i>>

COMMANDS_get_volume == <<_GET_START, _VOL, _GET_MID>>

COMMANDS_get_source == <<_GET_START, _SOURCE, _GET_MID>>

----------------------------------------------------------------------------
(* _parse_response, aiokef.py lines 68-84, on sequences of bytes.          *)

\* reply.split(b"R"): the pieces between the marker bytes, empty ones included
RECURSIVE Split(_, _, _, _)
Split(reply, i, cur, acc) ==
    IF i > Len(reply) THEN Append(acc, cur)
    ELSE IF reply[i] = _R THEN Split(reply, i + 1, <<>>, Append(acc, cur))
    ELSE Split(reply, i + 1, Append(cur, reply[i]), acc)

NonEmpty(piece) == piece # <<>>

\* [b"R" + i for i in reply.split(b"R") if i]
Responses(reply) ==
    LET pieces == SelectSeq(Split(reply, 1, <<>>, <<>>), NonEmpty)
    IN [k \in 1..Len(pieces) |-> <<_R>> \o pieces[k]]

FULL_RESPONSE_OK == <<82, 17, 255>>

\* the frame chosen, or raised = TRUE for either Exception of lines 78 and 84
_parse_response(message, reply) ==
    LET responses == Responses(reply)
        matching == {k \in 1..Len(responses) : responses[k][2] = message[2]}
        first == CHOOSE k \in matching : \A j \in matching : k <= j
    IN IF message[1] = _GET_START
       THEN IF matching = {} THEN [raised |-> TRUE, frame |-> <<>>]
            ELSE [raised |-> FALSE, frame |-> responses[first]]
       ELSE IF FULL_RESPONSE_OK \in Range(responses)
            THEN [raised |-> FALSE, frame |-> FULL_RESPONSE_OK]
            ELSE [raised |-> TRUE, frame |-> <<>>]

\* frame[-2], line 184
SecondToLast(frame) == frame[Len(frame) - 1]

\* A reply frame of the speaker to a query: the marker, the field queried
\* (read as r[1], line 76) and the value as the second-to-last byte (read as
\* [-2], line 184).
QueryReply(field, value) == <<_R, field, _SET_MID, value, 255>>

\* A reply frame of three bytes: the marker, the field queried and the value.
ShortReply(field, value) == <<_R, field, value>>

----------------------------------------------------------------------------
(* _AsyncCommunicator, aiokef.py lines 87-186, with the callers of its     *)
(* open_connection and send_message: is_online and get_state.              *)

VARIABLES
    handle,      \* (self._reader, self._writer): 0 for (None, None), else the connection
    open,        \* the connections whose socket is open
    elapsed,     \* time.time() - self._last_time_stamp in ticks, saturating
    _is_online,  \* self._is_online
    wd_pc,       \* where _disconnect_if_passive is: "check", "wait_closed", "sleep"
    task         \* the foreground tasks: what each runs and where it is suspended

\* AsyncKefSpeaker and the speaker it talks to
VARIABLES
    standby_time,          \* self.standby_time
    inverse_speaker_mode,  \* self.inverse_speaker_mode
    dev_source,            \* the source byte the speaker reports (+128 when off)
    dev_target,            \* the source byte of an acknowledged set not yet in effect
    dev_volume,            \* the volume byte the speaker reports (+128 when muted)
    written,               \* the bytes of the last command written to the speaker
    ctl                    \* the operation the controller runs and where it is

\* the inputs and results of the codec's functions
VARIABLES
    codec

connVars == <<handle, open, elapsed, _is_online, wd_pc, task>>

ctlVars == <<standby_time, inverse_speaker_mode, dev_source, dev_target,
             dev_volume, written, ctl>>

vars == <<connVars, ctlVars, codec>>

Tasks == {1, 2}

\* elapsed saturates one tick past the keep-alive window: time_is_up stays true
ElapsedCap == _KEEP_ALIVE + 1

Min(a, b) == IF a < b THEN a ELSE b

\* line 106
is_connected == handle # 0

\* line 171
time_is_up == elapsed > _KEEP_ALIVE

\* what an operation returned or raised: kind is "none" while it runs, "ok"
\* when it returned (flag: the boolean returned; state: the State returned;
\* level: the volume returned, None for Python's None), else the exception
\* raised; cause is the exception of the last attempt that tenacity's
\* RetryError wraps
NoState == [source |-> "", is_on |-> FALSE, standby_time |-> 0, orientation |-> ""]

None == 0 - 1

NoResult ==
    [kind |-> "none", cause |-> "", flag |-> FALSE, state |-> NoState, level |-> None]

Returned(flag, state) == [NoResult EXCEPT !.kind = "ok", !.flag = flag, !.state = state]

ReturnedVolume(level, flag) ==
    [NoResult EXCEPT !.kind = "ok", !.flag = flag, !.level = level]

Raised(exception, cause) == [NoResult EXCEPT !.kind = exception, !.cause = cause]

\* retries: the local of open_connection; attempts: the connection attempts
\* of the call of open_connection in progress; sm_tries, gs_tries: the attempt
\* of send_message and of get_state in progress; exc: what the last attempt
\* of send_message raised; sm_exc: what the call of send_message raised to
\* its caller
IdleTask ==
    [pc |-> "idle", op |-> "none", retries |-> 0, attempts |-> 0, sm_tries |-> 0,
     gs_tries |-> 0, wait |-> 0, conn |-> 0, oc |-> "none", exc |-> "", sm_exc |-> "",
     coop |-> FALSE, reopened |-> FALSE, result |-> NoResult]

\* the operation of a task ends: it returned res or raised it
Finish(tk, res) ==
    [tk EXCEPT !.pc = "idle", !.wait = 0, !.conn = 0, !.retries = 0, !.attempts = 0,
               !.result = res]

\* lines 251-256 of get_state, given the reply of send_message
DecodeState(response) ==
    LET code == response % 128
        entry == INPUT_SOURCES_RESPONSE[code]
    IN [source |-> entry[1], is_on |-> response <= 128,
        standby_time |-> entry[2], orientation |-> entry[3]]

\* the retry of lines 243-247 after an attempt of get_state raised
GetStateRaised(tk, exception) ==
    IF tk.gs_tries >= _MAX_ATTEMPT_TILL_SUCCESS
    THEN Finish(tk, Raised("RetryError", exception))
    ELSE [tk EXCEPT !.pc = "gs_backoff", !.wait = 0]

\* get_state after send_message returned response, lines 251-256
GetStateGot(tk, response) ==
    IF (response % 128) \notin DOMAIN INPUT_SOURCES_RESPONSE
    THEN GetStateRaised(tk, "ConnectionError")
    ELSE Finish(tk, Returned(FALSE, DecodeState(response)))

\* the retry of lines 176-180 after an attempt of send_message raised
\* exception: tenacity retries on any Exception, and after the last attempt
\* raises RetryError (reraise is not set) to get_state
SendMessageRaised(tk, exception) ==
    IF tk.sm_tries >= _MAX_SEND_MESSAGE_TRIES
    THEN GetStateRaised([tk EXCEPT !.exc = exception, !.sm_exc = "RetryError"],
                        "RetryError")
    ELSE [tk EXCEPT !.pc = "sm_backoff", !.wait = 0, !.exc = exception]

\* open_connection returned to its caller with the manager's handle h and the
\* flag online: is_online returns the flag (line 369); send_message goes on to
\* _send_message (lines 142-151), which writes to h and drains.  On an open
\* connection the few bytes of a command are sent at once, drain returns
\* without suspending and the task is next suspended in the read.  On a
\* connection whose close has begun (alive = FALSE) the write is dropped and
\* drain yields to the loop before it raises.
OpenConnectionReturned(tk, h, online, alive) ==
    IF tk.op = "is_online"
    THEN Finish([tk EXCEPT !.oc = "returned"], Returned(online, NoState))
    ELSE [tk EXCEPT !.oc = "returned", !.pc = IF alive THEN "read" ELSE "drain",
                    !.conn = h, !.wait = 0]

\* open_connection raised ConnectionRefusedError (line 132 or 139) after
\* clearing the flag: is_online returns the flag, send_message's attempt raised
OpenConnectionRaised(tk, why, online) ==
    IF tk.op = "is_online"
    THEN Finish([tk EXCEPT !.oc = why], Returned(online, NoState))
    ELSE SendMessageRaised([tk EXCEPT !.oc = why], "ConnectionRefusedError")

\* open_connection up to its first await, lines 109-119
EnterOpenConnection(tk) ==
    IF is_connected
    THEN OpenConnectionReturned(tk, handle, _is_online, handle \in open)
    ELSE [tk EXCEPT !.retries = 0, !.attempts = 1, !.pc = "connect", !.wait = 0]

\* the attempts of one call of open_connection are counted up to one past
\* _MAX_CONNECTION_RETRIES
AttemptsCap == _MAX_CONNECTION_RETRIES + 1

\* the connections the speaker and the host keep open at once, at most
MaxOpen == 3

\* a connection no socket, handle or task refers to
FreshConn ==
    CHOOSE c \in 1..(MaxOpen + Cardinality(Tasks) + 1) :
        /\ c \notin open
        /\ c # handle
        /\ \A t \in Tasks : task[t].conn # c
        /\ \A d \in 1..(c - 1) :
              d \in open \/ d = handle \/ \E t \in Tasks : task[t].conn = d

\* is_online is called, lines 363-365
Call_is_online(t) ==
    /\ task[t].pc = "idle"
    /\ task' = [task EXCEPT ![t] = EnterOpenConnection(
                   [IdleTask EXCEPT !.op = "is_online"])]
    /\ UNCHANGED <<handle, open, elapsed, _is_online, wd_pc>>
    /\ UNCHANGED <<ctlVars, codec>>

\* get_state is called: the first attempt of get_state and of send_message,
\* lines 248-250 and 181-182
Call_get_state(t) ==
    /\ task[t].pc = "idle"
    /\ task' = [task EXCEPT ![t] = EnterOpenConnection(
                   [IdleTask EXCEPT !.op = "get_state", !.gs_tries = 1,
                                    !.sm_tries = 1, !.coop = ~is_connected,
                                    !.reopened = ~is_connected /\ _is_online])]
    /\ UNCHANGED <<handle, open, elapsed, _is_online, wd_pc>>
    /\ UNCHANGED <<ctlVars, codec>>

\* the connection attempt succeeds, lines 119-122 and 134-136
ConnectSucceeds(t) ==
    /\ task[t].pc = "connect"
    /\ Cardinality(open) < MaxOpen
    /\ handle' = FreshConn
    /\ open' = open \cup {FreshConn}
    /\ _is_online' = TRUE
    /\ elapsed' = 0
    /\ task' = [task EXCEPT ![t] = OpenConnectionReturned(@, FreshConn, TRUE, TRUE)]
    /\ UNCHANGED wd_pc
    /\ UNCHANGED <<ctlVars, codec>>

\* ConnectionRefusedError, lines 123-125
ConnectRefused(t) ==
    /\ task[t].pc = "connect"
    /\ task' = [task EXCEPT ![t] = [@ EXCEPT !.pc = "sleep_refused", !.wait = 0,
                                             !.coop = FALSE]]
    /\ UNCHANGED <<handle, open, elapsed, _is_online, wd_pc>>
    /\ UNCHANGED <<ctlVars, codec>>

\* BlockingIOError, lines 126-129
ConnectBlocking(t) ==
    /\ task[t].pc = "connect"
    /\ task' = [task EXCEPT ![t] = [@ EXCEPT !.pc = "sleep_blocking", !.wait = 0,
                                             !.retries = 0, !.coop = FALSE]]
    /\ UNCHANGED <<handle, open, elapsed, _is_online, wd_pc>>
    /\ UNCHANGED <<ctlVars, codec>>

\* asyncio.TimeoutError or OSError, lines 130-132
ConnectDown(t) ==
    /\ task[t].pc = "connect"
    /\ _is_online' = FALSE
    /\ task' = [task EXCEPT ![t] =
                   OpenConnectionRaised([@ EXCEPT !.coop = FALSE], "offline", FALSE)]
    /\ UNCHANGED <<handle, open, elapsed, wd_pc>>
    /\ UNCHANGED <<ctlVars, codec>>

\* the sleep of line 125 or 129 is over: retries += 1 and the loop test,
\* lines 137, 113 and 138-139
SleepDone(t) ==
    /\ \/ task[t].pc = "sleep_refused" /\ task[t].wait >= 1
       \/ task[t].pc = "sleep_blocking" /\ task[t].wait >= HalfSeconds(1)
    /\ IF task[t].retries + 1 < _MAX_CONNECTION_RETRIES
       THEN /\ task' = [task EXCEPT ![t] =
                           [@ EXCEPT !.retries = @ + 1, !.pc = "connect", !.wait = 0,
                                     !.attempts = Min(@ + 1, AttemptsCap)]]
            /\ UNCHANGED _is_online
       ELSE /\ _is_online' = FALSE
            /\ task' = [task EXCEPT ![t] = OpenConnectionRaised(@, "exceeded", FALSE)]
    /\ UNCHANGED <<handle, open, elapsed, wd_pc>>
    /\ UNCHANGED <<ctlVars, codec>>

\* the replies the speaker may give to the source query in one read: its
\* answer (the source on, the source off, a code of no source), the answer
\* behind a stray acknowledgement, and an acknowledgement alone
SourceReports ==
    {INPUT_SOURCES("Aux")[20][1], INPUT_SOURCES("Aux")[20][1] + 128, 128}

ProperReplies ==
    {QueryReply(_SOURCE, v) : v \in SourceReports \ {128}}
    \cup {FULL_RESPONSE_OK \o QueryReply(_SOURCE, v) : v \in SourceReports \ {128}}

RawReplies ==
    ProperReplies \cup {QueryReply(_SOURCE, 128), FULL_RESPONSE_OK}

\* send_message after _send_message returned data, lines 183-186, and its caller
SendMessageGot(tk, message, data) ==
    LET parsed == _parse_response(message, data)
    IN IF parsed.raised THEN SendMessageRaised(tk, "Exception")
       ELSE GetStateGot(tk, SecondToLast(parsed.frame))

\* drain on the closed connection raises ConnectionResetError, line 146
DrainDone(t) ==
    /\ task[t].pc = "drain"
    /\ task' = [task EXCEPT ![t] =
                   SendMessageRaised([@ EXCEPT !.coop = FALSE], "ConnectionResetError")]
    /\ UNCHANGED <<handle, open, elapsed, _is_online, wd_pc>>
    /\ UNCHANGED <<ctlVars, codec>>

\* the read returns what the speaker sent, lines 151-153 and 157
ReadReply(t) ==
    /\ task[t].pc = "read"
    /\ task[t].conn \in open
    /\ \E data \in RawReplies :
          task' = [task EXCEPT ![t] =
                      SendMessageGot([@ EXCEPT !.coop = @ /\ data \in ProperReplies],
                                     COMMANDS_get_source, data)]
    /\ elapsed' = 0
    /\ UNCHANGED <<handle, open, _is_online, wd_pc>>
    /\ UNCHANGED <<ctlVars, codec>>

\* the connection was closed under the read: it returns b"" (end of stream)
ReadEof(t) ==
    /\ task[t].pc = "read"
    /\ task[t].conn \notin open
    /\ task' = [task EXCEPT ![t] =
                   SendMessageGot([@ EXCEPT !.coop = FALSE], COMMANDS_get_source, <<>>)]
    /\ elapsed' = 0
    /\ UNCHANGED <<handle, open, _is_online, wd_pc>>
    /\ UNCHANGED <<ctlVars, codec>>

\* asyncio.TimeoutError, lines 154-157: the except clause logs, data was
\* never bound, and return data in the finally clause raises
\* UnboundLocalError; line 153 is not reached
ReadTimeout(t) ==
    /\ task[t].pc = "read"
    /\ task[t].conn \in open
    /\ task[t].wait >= _TIMEOUT
    /\ task' = [task EXCEPT ![t] =
                   SendMessageRaised([@ EXCEPT !.coop = FALSE], "UnboundLocalError")]
    /\ UNCHANGED <<handle, open, elapsed, _is_online, wd_pc>>
    /\ UNCHANGED <<ctlVars, codec>>

\* the speaker resets the connection under the read: the transport is lost,
\* the read raises ConnectionResetError, and return data in the finally
\* clause replaces it with UnboundLocalError; nothing touches the handle
ReadFails(t) ==
    /\ task[t].pc = "read"
    /\ task[t].conn \in open
    /\ open' = open \ {task[t].conn}
    /\ task' = [task EXCEPT ![t] =
                   SendMessageRaised([@ EXCEPT !.coop = FALSE], "UnboundLocalError")]
    /\ UNCHANGED <<handle, elapsed, _is_online, wd_pc>>
    /\ UNCHANGED <<ctlVars, codec>>

\* the wait between two attempts of send_message is over (wait_exponential
\* waits a second or more): the next attempt, lines 181-182
SendBackoffDone(t) ==
    /\ task[t].pc = "sm_backoff"
    /\ task[t].wait >= HalfSeconds(1)
    /\ task' = [task EXCEPT ![t] =
                   EnterOpenConnection([@ EXCEPT !.sm_tries = @ + 1, !.exc = ""])]
    /\ UNCHANGED <<handle, open, elapsed, _is_online, wd_pc>>
    /\ UNCHANGED <<ctlVars, codec>>

\* the wait between two attempts of get_state is over: the next attempt
GetStateBackoffDone(t) ==
    /\ task[t].pc = "gs_backoff"
    /\ task[t].wait >= HalfSeconds(1)
    /\ task' = [task EXCEPT ![t] =
                   EnterOpenConnection([@ EXCEPT !.gs_tries = @ + 1, !.sm_tries = 1,
                                                 !.exc = "", !.sm_exc = ""])]
    /\ UNCHANGED <<handle, open, elapsed, _is_online, wd_pc>>
    /\ UNCHANGED <<ctlVars, codec>>

\* a watchdog whose turn never disconnects: lines 172-173 left out
WatchdogNeverDisconnects ==
    /\ wd_pc = "check"
    /\ wd_pc' = "sleep"
    /\ UNCHANGED <<handle, open, elapsed, _is_online, task>>
    /\ UNCHANGED <<ctlVars, codec>>

\* one turn of the loop of _disconnect_if_passive, lines 169-174, up to its
\* first await: _disconnect closes the writer and awaits wait_closed (lines
\* 160-164), or there is nothing to do and the loop sleeps
WatchdogCheck ==
    /\ wd_pc = "check"
    /\ IF time_is_up /\ is_connected
       THEN /\ open' = open \ {handle}
            /\ wd_pc' = "wait_closed"
       ELSE /\ wd_pc' = "sleep"
            /\ UNCHANGED open
    /\ UNCHANGED <<handle, elapsed, _is_online, task>>
    /\ UNCHANGED <<ctlVars, codec>>

\* wait_closed returns: the handle is cleared (line 165) and the loop sleeps
WatchdogClosed ==
    /\ wd_pc = "wait_closed"
    /\ handle' = 0
    /\ wd_pc' = "sleep"
    /\ UNCHANGED <<open, elapsed, _is_online, task>>
    /\ UNCHANGED <<ctlVars, codec>>

\* a task that must run before more time passes: a timeout or a sleep is due
Due(tk) ==
    \/ tk.pc \in {"connect", "read"} /\ tk.wait >= _TIMEOUT
    \/ tk.pc = "sleep_refused" /\ tk.wait >= 1
    \/ tk.pc = "sleep_blocking" /\ tk.wait >= HalfSeconds(1)

\* half a second passes: the watchdog's sleep of line 174 is over
Tick ==
    /\ wd_pc = "sleep"
    /\ \A t \in Tasks : ~Due(task[t])
    /\ wd_pc' = "check"
    /\ elapsed' = Min(elapsed + 1, ElapsedCap)
    /\ task' = [t \in Tasks |->
                   IF task[t].pc \in {"idle", "drain"} THEN task[t]
                   ELSE [task[t] EXCEPT !.wait = Min(@ + 1, _TIMEOUT)]]
    /\ UNCHANGED <<handle, open, _is_online>>
    /\ UNCHANGED <<ctlVars, codec>>

----------------------------------------------------------------------------
(* AsyncKefSpeaker, aiokef.py lines 243-291 and 371-400: get_state,        *)
(* set_source, turn_on and turn_off.  One step of the controller is one    *)
(* call of send_message with the code that follows it up to the next call; *)
(* send_message returns the byte the speaker answers with, or raises       *)
(* tenacity's RetryError once its attempts are used up.                    *)

\* range(20) of lines 382 and 395
PowerPolls == 20

NoTarget == None

\* source, state: the arguments; ss_tries, gs_tries: the attempt of the
\* retried set and get in progress; poll, pw_poll: the turn of the polling
\* loops; acked: the set command was acknowledged; volume, is_muted, value:
\* the locals of the volume operations; start: the speaker's volume byte at
\* the call; prev: the operation before this one; ops: the calls so far
IdleCtl ==
    [pc |-> "idle", op |-> "none", source |-> "", state |-> "",
     ss_tries |-> 0, poll |-> 0, gs_tries |-> 0, pw_poll |-> 0,
     acked |-> FALSE, volume |-> None, is_muted |-> FALSE, value |-> 0,
     start |-> 0, prev |-> [op |-> "none", start |-> 0, ok |-> FALSE], ops |-> 0,
     result |-> NoResult]

\* the operation ends: it returned res or raised it, and the counters of its
\* retries and loops are gone with its frames
CtlFinish(c, res) ==
    [c EXCEPT !.pc = "done", !.result = res,
              !.ss_tries = 0, !.gs_tries = 0, !.poll = 0, !.pw_poll = 0]

\* line 269-271: the code set_source writes
SetSourceCode(source, state) ==
    LET i == INPUT_SOURCES(source)[standby_time][IF inverse_speaker_mode THEN 2 ELSE 1] % 128
    IN IF state = "off" THEN i + 128 ELSE i

\* the retry of lines 262-266 after an attempt of set_source raised: the
\* next attempt, or RetryError to the caller of set_source, and through
\* turn_on and turn_off to theirs
SetSourceRaised(c, exception) ==
    IF c.ss_tries >= _MAX_ATTEMPT_TILL_SUCCESS
    THEN CtlFinish(c, Raised("RetryError", exception))
    ELSE [c EXCEPT !.pc = "set", !.ss_tries = @ + 1, !.poll = 0, !.gs_tries = 0]

\* set_source returned (line 282): its caller goes on, turn_on and turn_off
\* with the first poll of the power state (lines 382-383 and 395-396)
SetSourceReturned(c) ==
    IF c.op = "set_source"
    THEN CtlFinish(c, Returned(FALSE, NoState))
    ELSE [c EXCEPT !.pc = "pw_poll", !.pw_poll = 0, !.gs_tries = 1]

\* get_state raised RetryError to its caller, which does not catch it
CtlGetStateRaised(c, exception) ==
    IF c.pc = "poll"
    THEN SetSourceRaised(c, "RetryError")
    ELSE CtlFinish(c, Raised("RetryError", exception))

\* an attempt of get_state raised: the retry of lines 243-247
CtlGetStateFailed(c, exception) ==
    IF c.gs_tries >= _MAX_ATTEMPT_TILL_SUCCESS
    THEN CtlGetStateRaised(c, exception)
    ELSE [c EXCEPT !.gs_tries = @ + 1]

\* a poll of set_source got the source (lines 279-291)
PollGot(c, st) ==
    IF st.source = c.source THEN SetSourceReturned(c)
    ELSE IF c.poll + 1 < _MAX_ATTEMPT_TILL_SUCCESS
         THEN [c EXCEPT !.poll = @ + 1, !.gs_tries = 1]
         ELSE SetSourceRaised(c, "TimeoutError")

\* a turn_on that selects the source it is given whatever the power state
FirstStateGotSelects(c, st) ==
    IF c.op = "turn_on"
    THEN IF st.is_on /\ c.source = "" THEN CtlFinish(c, Returned(FALSE, NoState))
         ELSE [c EXCEPT !.pc = "set", !.ss_tries = 1, !.state = "on",
                        !.source = IF c.source # "" THEN c.source ELSE st.source]
    ELSE IF ~st.is_on THEN CtlFinish(c, Returned(FALSE, NoState))
         ELSE [c EXCEPT !.pc = "set", !.ss_tries = 1, !.state = "off",
                        !.source = st.source]

\* turn_on or turn_off got the state it asked for first (lines 377-380 and
\* 390-393): nothing to do, or set_source is called
FirstStateGot(c, st) ==
    IF c.op = "turn_on"
    THEN IF st.is_on THEN CtlFinish(c, Returned(FALSE, NoState))
         ELSE [c EXCEPT !.pc = "set", !.ss_tries = 1, !.state = "on",
                        !.source = IF c.source # "" THEN c.source ELSE st.source]
    ELSE IF ~st.is_on THEN CtlFinish(c, Returned(FALSE, NoState))
         ELSE [c EXCEPT !.pc = "set", !.ss_tries = 1, !.state = "off",
                        !.source = st.source]

\* a poll of the power state got it (lines 382-387 and 395-400); after the
\* last poll the loop ends and the function returns
PowerPollGot(c, st) ==
    IF st.is_on = (c.op = "turn_on") THEN CtlFinish(c, Returned(FALSE, NoState))
    ELSE IF c.pw_poll + 1 < PowerPolls
         THEN [c EXCEPT !.pw_poll = @ + 1, !.gs_tries = 1]
         ELSE CtlFinish(c, Returned(FALSE, NoState))

\* get_state returned st to its caller
CtlGotState(c, st) ==
    CASE c.pc = "get_state" -> CtlFinish(c, Returned(FALSE, st))
      [] c.pc = "first" -> FirstStateGot(c, st)
      [] c.pc = "poll" -> PollGot(c, st)
      [] c.pc = "pw_poll" -> PowerPollGot(c, st)

\* get_state after send_message returned response, lines 251-256
CtlGetStateGot(c, response) ==
    IF (response % 128) \notin DOMAIN INPUT_SOURCES_RESPONSE
    THEN CtlGetStateFailed(c, "ConnectionError")
    ELSE CtlGotState(c, DecodeState(response))

CtlCall_get_state ==
    /\ ctl.pc = "idle"
    /\ ctl' = [IdleCtl EXCEPT !.op = "get_state", !.pc = "get_state", !.gs_tries = 1]
    /\ UNCHANGED <<standby_time, inverse_speaker_mode, dev_source, dev_target,
                   dev_volume, written>>
    /\ UNCHANGED <<connVars, codec>>

\* set_source(source, state=state) is called with a name the assert of line
\* 268 accepts
CtlCall_set_source ==
    /\ ctl.pc = "idle"
    /\ \E source \in Range(SourceNames), state \in {"on", "off"} :
          ctl' = [IdleCtl EXCEPT !.op = "set_source", !.pc = "set", !.ss_tries = 1,
                                 !.source = source, !.state = state]
    /\ UNCHANGED <<standby_time, inverse_speaker_mode, dev_source, dev_target,
                   dev_volume, written>>
    /\ UNCHANGED <<connVars, codec>>

\* turn_on(source) is called; "" stands for source=None
CtlCall_turn_on ==
    /\ ctl.pc = "idle"
    /\ \E source \in Range(SourceNames) \cup {""} :
          ctl' = [IdleCtl EXCEPT !.op = "turn_on", !.pc = "first", !.gs_tries = 1,
                                 !.source = source]
    /\ UNCHANGED <<standby_time, inverse_speaker_mode, dev_source, dev_target,
                   dev_volume, written>>
    /\ UNCHANGED <<connVars, codec>>

CtlCall_turn_off ==
    /\ ctl.pc = "idle"
    /\ ctl' = [IdleCtl EXCEPT !.op = "turn_off", !.pc = "first", !.gs_tries = 1]
    /\ UNCHANGED <<standby_time, inverse_speaker_mode, dev_source, dev_target,
                   dev_volume, written>>
    /\ UNCHANGED <<connVars, codec>>

\* the set command is written and the speaker acknowledges it, lines 272-278
SetAcked ==
    /\ ctl.pc = "set"
    /\ written' = COMMANDS_set_source(SetSourceCode(ctl.source, ctl.state))
    /\ dev_target' = SetSourceCode(ctl.source, ctl.state)
    /\ ctl' = [ctl EXCEPT !.pc = "poll", !.poll = 0, !.gs_tries = 1, !.acked = TRUE]
    /\ UNCHANGED <<standby_time, inverse_speaker_mode, dev_source, dev_volume>>
    /\ UNCHANGED <<connVars, codec>>

\* send_message raises for the set command: the speaker is not reached
SetFailed ==
    /\ ctl.pc = "set"
    /\ ctl' = SetSourceRaised(ctl, "RetryError")
    /\ UNCHANGED <<standby_time, inverse_speaker_mode, dev_source, dev_target,
                   dev_volume, written>>
    /\ UNCHANGED <<connVars, codec>>

\* the source query is written and the speaker answers with its source byte
GetAnswered ==
    /\ ctl.pc \in {"get_state", "first", "poll", "pw_poll"}
    /\ written' = COMMANDS_get_source
    /\ ctl' = CtlGetStateGot(ctl, dev_source)
    /\ UNCHANGED <<standby_time, inverse_speaker_mode, dev_source, dev_target,
                   dev_volume>>
    /\ UNCHANGED <<connVars, codec>>

\* send_message raises for the source query
GetFailed ==
    /\ ctl.pc \in {"get_state", "first", "poll", "pw_poll"}
    /\ ctl' = CtlGetStateFailed(ctl, "RetryError")
    /\ UNCHANGED <<standby_time, inverse_speaker_mode, dev_source, dev_target,
                   dev_volume, written>>
    /\ UNCHANGED <<connVars, codec>>

\* the speaker brings an acknowledged set into effect, some time after it
DeviceApply ==
    /\ dev_target # NoTarget
    /\ dev_source' = dev_target
    /\ dev_target' = NoTarget
    /\ UNCHANGED <<standby_time, inverse_speaker_mode, dev_volume, written, ctl>>
    /\ UNCHANGED <<connVars, codec>>

----------------------------------------------------------------------------
(* AsyncKefSpeaker, aiokef.py lines 293-361: the volume operations.        *)
(* Volumes are counted in wire units, hundredths of the 0..1 scale:        *)
(* volume / _VOLUME_SCALE is the same count read as a fraction.            *)

\* volume_step=0.05 and maximum_volume=1.0, the defaults of lines 223-224
volume_step == 5

maximum_volume == 100

\* the operations called on one controller, at most
MaxOps == 2

VolumeOps ==
    {"get_volume_and_is_muted", "get_volume", "mute", "unmute",
     "increase_volume", "decrease_volume"}

\* the first step of each operation: all start with get_volume_and_is_muted
FirstPc(op) ==
    CASE op = "get_volume_and_is_muted" -> "gvm_get"
      [] op = "get_volume" -> "gv_get"
      [] op = "mute" -> "mute_get"
      [] op = "unmute" -> "unmute_get"
      [] op \in {"increase_volume", "decrease_volume"} -> "cv_get_volume"

GetPcs == {"gvm_get", "gv_get", "mute_get", "unmute_get",
           "cv_get_volume", "cv_is_muted", "cv_unmute_get"}

SetPcs == {"mute_set", "unmute_set", "cv_unmute_set", "cv_set"}

\* lines 305-306: what get_volume_and_is_muted returns for the byte volume
get_volume_and_is_muted(volume) == [level |-> volume, is_muted |-> volume >= 128]

\* lines 326-327: get_volume returns None when muted
get_volume(volume) ==
    IF get_volume_and_is_muted(volume).is_muted THEN None
    ELSE get_volume_and_is_muted(volume).level

\* a mute that adds the offset to the byte as read, without the % 128
MuteByteNoMod(volume) == volume + 128

\* line 357: the byte mute writes
MuteByte(volume) == (volume % 128) + 128

\* line 361: the byte unmute writes
UnmuteByte(volume) == volume % 128

\* lines 330-331: set_volume clamps the value and writes it
ClampVolume(value) ==
    IF value < 0 THEN 0 ELSE IF value > maximum_volume THEN maximum_volume ELSE value

\* the step of _change_volume, lines 343-349
Step(c) == IF c.op = "increase_volume" THEN volume_step ELSE 0 - volume_step

\* lines 340-341 of _change_volume: the assert, then set_volume(volume + step)
ChangeVolumeSet(c) ==
    IF c.volume = None
    THEN CtlFinish(c, Raised("AssertionError", ""))
    ELSE [c EXCEPT !.pc = "cv_set", !.ss_tries = 1,
                   !.value = ClampVolume(c.volume + Step(c))]

\* get_volume_and_is_muted returned for the byte volume: what its caller does
VolumeGot(c, volume) ==
    CASE c.pc = "gvm_get" ->
            CtlFinish(c, ReturnedVolume(get_volume_and_is_muted(volume).level,
                                        get_volume_and_is_muted(volume).is_muted))
      [] c.pc = "gv_get" -> CtlFinish(c, ReturnedVolume(get_volume(volume), FALSE))
      [] c.pc = "mute_get" ->
            [c EXCEPT !.pc = "mute_set", !.ss_tries = 1, !.value = MuteByte(volume)]
      [] c.pc = "unmute_get" ->
            [c EXCEPT !.pc = "unmute_set", !.ss_tries = 1, !.value = UnmuteByte(volume)]
      [] c.pc = "cv_get_volume" ->
            [c EXCEPT !.pc = "cv_is_muted", !.gs_tries = 1, !.volume = get_volume(volume)]
      [] c.pc = "cv_is_muted" ->
            IF get_volume_and_is_muted(volume).is_muted
            THEN [c EXCEPT !.pc = "cv_unmute_get", !.gs_tries = 1, !.is_muted = TRUE]
            ELSE ChangeVolumeSet(c)
      [] c.pc = "cv_unmute_get" ->
            [c EXCEPT !.pc = "cv_unmute_set", !.ss_tries = 1, !.value = UnmuteByte(volume)]

\* _set_volume returned: what its caller does
VolumeSet(c) ==
    CASE c.pc \in {"mute_set", "unmute_set"} -> CtlFinish(c, Returned(FALSE, NoState))
      [] c.pc = "cv_unmute_set" -> ChangeVolumeSet(c)
      [] c.pc = "cv_set" -> CtlFinish(c, ReturnedVolume(c.value, FALSE))

\* a volume operation is called
VolCall ==
    /\ ctl.pc \in {"idle", "done"}
    /\ ctl.ops < MaxOps
    /\ \E op \in VolumeOps :
          ctl' = [IdleCtl EXCEPT !.op = op, !.pc = FirstPc(op), !.gs_tries = 1,
                                 !.start = dev_volume, !.ops = ctl.ops + 1,
                                 !.prev = [op |-> ctl.op, start |-> ctl.start,
                                           ok |-> ctl.result.kind = "ok"]]
    /\ UNCHANGED <<standby_time, inverse_speaker_mode, dev_source, dev_target,
                   dev_volume, written>>
    /\ UNCHANGED <<connVars, codec>>

\* the volume query is written and the speaker answers with its volume byte,
\* line 302
VolGetAnswered ==
    /\ ctl.pc \in GetPcs
    /\ written' = COMMANDS_get_volume
    /\ ctl' = VolumeGot(ctl, dev_volume)
    /\ UNCHANGED <<standby_time, inverse_speaker_mode, dev_source, dev_target,
                   dev_volume>>
    /\ UNCHANGED <<connVars, codec>>

\* send_message raises for the volume query: the retry of lines 293-297
VolGetFailed ==
    /\ ctl.pc \in GetPcs
    /\ ctl' = IF ctl.gs_tries >= _MAX_ATTEMPT_TILL_SUCCESS
              THEN CtlFinish(ctl, Raised("RetryError", "RetryError"))
              ELSE [ctl EXCEPT !.gs_tries = @ + 1]
    /\ UNCHANGED <<standby_time, inverse_speaker_mode, dev_source, dev_target,
                   dev_volume, written>>
    /\ UNCHANGED <<connVars, codec>>

\* the volume is written and the speaker acknowledges and takes it, lines
\* 316-319
VolSetAcked ==
    /\ ctl.pc \in SetPcs
    /\ written' = COMMANDS_set_volume(ctl.value)
    /\ dev_volume' = ctl.value
    /\ ctl' = VolumeSet(ctl)
    /\ UNCHANGED <<standby_time, inverse_speaker_mode, dev_source, dev_target>>
    /\ UNCHANGED <<connVars, codec>>

\* send_message raises for the set command: the retry of lines 308-312
VolSetFailed ==
    /\ ctl.pc \in SetPcs
    /\ ctl' = IF ctl.ss_tries >= _MAX_ATTEMPT_TILL_SUCCESS
              THEN CtlFinish(ctl, Raised("RetryError", "RetryError"))
              ELSE [ctl EXCEPT !.ss_tries = @ + 1]
    /\ UNCHANGED <<standby_time, inverse_speaker_mode, dev_source, dev_target,
                   dev_volume, written>>
    /\ UNCHANGED <<connVars, codec>>

----------------------------------------------------------------------------
(* The source tables applied to one source, standby time and orientation.  *)

\* the forward table is read: INPUT_SOURCES[source][standby][orientation]
Encode ==
    /\ codec.pc = "start"
    /\ codec' = [codec EXCEPT !.pc = "encoded",
                    !.code = INPUT_SOURCES(codec.source)[codec.standby][codec.index]]
    /\ UNCHANGED <<connVars, ctlVars>>

\* the reverse table is read, line 255
Decode ==
    /\ codec.pc = "encoded"
    /\ codec' = [codec EXCEPT !.pc = "decoded",
                    !.decoded = INPUT_SOURCES_RESPONSE[codec.code]]
    /\ UNCHANGED <<connVars, ctlVars>>

----------------------------------------------------------------------------
(* set_source and get_state on the bytes of one exchange with the speaker: *)
(* what is written, what is read, and what send_message (lines 183-186)    *)
(* and its caller make of it.                                              *)

\* set_source(source, state="on") writes its command, lines 269-274
WireSet ==
    /\ codec.pc = "call"
    /\ written' = COMMANDS_set_source(SetSourceCode(codec.source, "on"))
    /\ codec' = [codec EXCEPT !.pc = "set", !.code = SetSourceCode(codec.source, "on")]
    /\ UNCHANGED <<standby_time, inverse_speaker_mode, dev_source, dev_target,
                   dev_volume, ctl>>
    /\ UNCHANGED connVars

\* the speaker acknowledges the set: send_message parses the reply and
\* set_source compares its second-to-last byte with _RESPONSE_OK, line 275
WireAck ==
    /\ codec.pc = "set"
    /\ LET parsed == _parse_response(written, FULL_RESPONSE_OK)
       IN codec' =
             IF parsed.raised
             THEN [codec EXCEPT !.pc = "done", !.reply = FULL_RESPONSE_OK,
                                !.raised = "Exception"]
             ELSE IF SecondToLast(parsed.frame) # _RESPONSE_OK
             THEN [codec EXCEPT !.pc = "done", !.reply = FULL_RESPONSE_OK,
                                !.raised = "ConnectionError"]
             ELSE [codec EXCEPT !.pc = "acked"]
    /\ UNCHANGED <<connVars, ctlVars>>

\* get_state writes the source query, line 250
WireQuery ==
    /\ codec.pc = "acked"
    /\ written' = COMMANDS_get_source
    /\ codec' = [codec EXCEPT !.pc = "query"]
    /\ UNCHANGED <<standby_time, inverse_speaker_mode, dev_source, dev_target,
                   dev_volume, ctl>>
    /\ UNCHANGED connVars

\* the speaker answers the query with the code that was set, in a frame of
\* three or of five bytes: lines 183-184 and 251-256
WireReply ==
    /\ codec.pc = "query"
    /\ \E data \in {ShortReply(_SOURCE, codec.code), QueryReply(_SOURCE, codec.code)} :
          LET parsed == _parse_response(written, data)
              response == SecondToLast(parsed.frame)
          IN codec' =
                IF parsed.raised
                THEN [codec EXCEPT !.pc = "done", !.reply = data, !.raised = "Exception"]
                ELSE IF (response % 128) \notin DOMAIN INPUT_SOURCES_RESPONSE
                THEN [codec EXCEPT !.pc = "done", !.reply = data, !.response = response,
                                   !.raised = "ConnectionError"]
                ELSE [codec EXCEPT !.pc = "done", !.reply = data, !.response = response,
                                   !.state = DecodeState(response)]
    /\ UNCHANGED <<connVars, ctlVars>>

----------------------------------------------------------------------------
(* Initial states and specifications.                                      *)

\* _AsyncCommunicator.__init__, lines 88-102: no connection, the watchdog
\* task created and about to make its first check
InitConn ==
    /\ handle = 0
    /\ open = {}
    /\ elapsed = ElapsedCap
    /\ _is_online = FALSE
    /\ wd_pc = "check"
    /\ task = [t \in Tasks |-> IdleTask]

\* AsyncKefSpeaker.__init__ with its defaults (lines 225-226), and a speaker
\* that is on, playing Aux at volume 30
InitSpeaker ==
    /\ standby_time = 0
    /\ inverse_speaker_mode = FALSE
    /\ dev_source = 42
    /\ dev_target = NoTarget
    /\ dev_volume = 30
    /\ written = <<>>
    /\ ctl = IdleCtl

\* source, standby, index: the keys of a table lookup; code, decoded: what
\* the tables gave; reply: the bytes read; response: the byte send_message
\* returned; raised: the exception of the attempt; state: what get_state
\* returned
NoCodec ==
    [pc |-> "none", source |-> "", standby |-> 0, index |-> 1, code |-> 0,
     decoded |-> <<"", 0, "">>, reply |-> <<>>, response |-> None, raised |-> "",
     state |-> NoState]

Init ==
    /\ InitConn
    /\ InitSpeaker
    /\ codec = NoCodec

Watchdog == WatchdogCheck \/ WatchdogClosed

\* open_connection with the outcomes of a connection attempt that have been
\* seen: line 127 says BlockingIOError has not
OpenConnectionStep(t) ==
    \/ ConnectSucceeds(t)
    \/ ConnectRefused(t)
    \/ ConnectDown(t)
    \/ SleepDone(t)

SendMessageStep(t) ==
    \/ DrainDone(t)
    \/ ReadReply(t)
    \/ ReadEof(t)
    \/ ReadFails(t)
    \/ SendBackoffDone(t)
    \/ GetStateBackoffDone(t)

\* one controller task with the watchdog
Next ==
    \/ Tick
    \/ Watchdog
    \/ Call_is_online(1)
    \/ Call_get_state(1)
    \/ OpenConnectionStep(1)
    \/ SendMessageStep(1)

Spec == Init /\ [][Next]_vars

\* two tasks that call is_online, with the watchdog
NextConc ==
    \/ Tick
    \/ Watchdog
    \/ \E t \in Tasks : Call_is_online(t) \/ OpenConnectionStep(t)

SpecConc == Init /\ [][NextConc]_vars

\* one task that calls is_online, with every outcome of a connection attempt
\* that open_connection handles, BlockingIOError included
NextOpen ==
    \/ Tick
    \/ Watchdog
    \/ Call_is_online(1)
    \/ OpenConnectionStep(1)
    \/ ConnectBlocking(1)

SpecOpen == Init /\ [][NextOpen]_vars

\* a task that calls get_state and a task that calls is_online, with the
\* watchdog, on a speaker that accepts a connection or lets the attempt time
\* out and never answers a query: a connection the second task opens takes
\* the place of the one the first reads from, and the read lasts until its
\* timeout
NextSend ==
    \/ Tick
    \/ Watchdog
    \/ Call_get_state(1)
    \/ Call_is_online(2)
    \/ \E t \in Tasks : ConnectSucceeds(t) \/ ConnectDown(t)
    \/ DrainDone(1)
    \/ ReadEof(1)
    \/ ReadTimeout(1)
    \/ SendBackoffDone(1)
    \/ GetStateBackoffDone(1)

SpecSend == Init /\ [][NextSend]_vars

\* the source bytes a speaker may report at the start, for a controller
\* constructed with this standby time and orientation: Aux on, Wifi off, the
\* paired Bluetooth on, and a byte that is in no table
DevSources ==
    {SetSourceCode("Aux", "on"), SetSourceCode("Wifi", "off"),
     SetSourceCode("Bluetooth_paired", "on"), 1}

\* a controller constructed with any standby time and orientation the check
\* of line 230 accepts
InitCtl ==
    /\ InitConn
    /\ standby_time \in Range(STANDBY_OPTIONS)
    /\ inverse_speaker_mode \in BOOLEAN
    /\ dev_source \in DevSources
    /\ dev_target = NoTarget
    /\ dev_volume = 30
    /\ written = <<>>
    /\ ctl = IdleCtl
    /\ codec = NoCodec

\* one call of get_state, set_source, turn_on or turn_off on a speaker that
\* answers or not
NextCtl ==
    \/ CtlCall_get_state
    \/ CtlCall_set_source
    \/ CtlCall_turn_on
    \/ CtlCall_turn_off
    \/ SetAcked
    \/ SetFailed
    \/ GetAnswered
    \/ GetFailed
    \/ DeviceApply

SpecCtl == InitCtl /\ [][NextCtl]_vars

\* the volume bytes of a speaker: a level of 0..100, 128 more when muted
VolumeBytes == (0..100) \cup (128..228)

InitVol ==
    /\ InitConn
    /\ standby_time = 0
    /\ inverse_speaker_mode = FALSE
    /\ dev_source = 42
    /\ dev_target = NoTarget
    /\ dev_volume \in VolumeBytes
    /\ written = <<>>
    /\ ctl = IdleCtl
    /\ codec = NoCodec

\* up to MaxOps volume operations one after the other on a speaker that
\* answers or not
NextVol ==
    \/ VolCall
    \/ VolGetAnswered
    \/ VolGetFailed
    \/ VolSetAcked
    \/ VolSetFailed

SpecVol == InitVol /\ [][NextVol]_vars

InitCodec ==
    /\ InitConn
    /\ InitSpeaker
    /\ \E source \in Range(SourceNames), t \in Range(STANDBY_OPTIONS), index \in {1, 2} :
          codec = [NoCodec EXCEPT !.pc = "start", !.source = source,
                                  !.standby = t, !.index = index]

NextCodec == Encode \/ Decode

SpecCodec == InitCodec /\ [][NextCodec]_vars

\* a controller constructed with any standby time and orientation, and a
\* call of set_source with any name of the table
InitWire ==
    /\ InitConn
    /\ standby_time \in Range(STANDBY_OPTIONS)
    /\ inverse_speaker_mode \in BOOLEAN
    /\ dev_source = 42
    /\ dev_target = NoTarget
    /\ dev_volume = 30
    /\ written = <<>>
    /\ ctl = IdleCtl
    /\ \E source \in Range(SourceNames) :
          codec = [NoCodec EXCEPT !.pc = "call", !.source = source]

NextWire == WireSet \/ WireAck \/ WireQuery \/ WireReply

SpecWire == InitWire /\ [][NextWire]_vars

----------------------------------------------------------------------------
(* The claims about the connection manager.                                *)

\* a transaction of task t is in progress: send_message has an open
\* connection, has written to it and is suspended before the reply is read
InTransaction(t) ==
    /\ task[t].pc \in {"drain", "read"}
    /\ task[t].conn \in open
    /\ task[t].conn = handle

\* C1: in every interleaving of the watchdog with a send_message, no step of
\* the watchdog closes or clears the connection of a transaction in progress.
C1_NoCloseMidTransaction ==
    [][\A t \in Tasks :
          (InTransaction(t) /\ Watchdog)
              => (task[t].conn \in open' /\ handle' = task[t].conn)]_vars

\* C6: is_online never raises; it returns false when open_connection raised
\* (the speaker refused every attempt, or was down), and true whenever
\* open_connection returned.
C6_IsOnlineReports ==
    \A t \in Tasks :
        (task[t].op = "is_online" /\ task[t].pc = "idle")
            => /\ task[t].result.kind = "ok"
               /\ task[t].oc \in {"offline", "exceeded"} => task[t].result.flag = FALSE
               /\ task[t].oc = "returned" => task[t].result.flag = TRUE

\* the watchdog runs when its sleep is over, and time passes
FairSpec == Spec /\ WF_vars(Tick) /\ WF_vars(Watchdog)

AllIdle == \A t \in Tasks : task[t].pc = "idle"

----------------------------------------------------------------------------
(* The claims about the controller.                                        *)

\* C3: a set_source whose set command was acknowledged and whose polls never
\* reported the requested source fails with a timeout error, a kind of its
\* own, not the kind a transport failure raises.
C3_ConvergenceTimeoutKind ==
    (ctl.op = "set_source" /\ ctl.pc = "done" /\ ctl.acked
        /\ ctl.result.cause = "TimeoutError")
        => ctl.result.kind = "TimeoutError"

\* the speaker is on, by the byte it reports (line 251)
DeviceIsOn == dev_source <= 128

\* C4: turn_on (turn_off) never returns normally while the speaker still
\* reports off (on); when all 20 polls fail it raises.
C4_PowerConverged ==
    (ctl.op \in {"turn_on", "turn_off"} /\ ctl.pc = "done" /\ ctl.result.kind = "ok")
        => (DeviceIsOn <=> ctl.op = "turn_on")

\* the codes of the paired Bluetooth, without the power bit
AliasCodes ==
    {INPUT_SOURCES("Bluetooth_paired")[t][index] :
        t \in Range(STANDBY_OPTIONS), index \in {1, 2}}

\* C5: no set-source command is ever written with a code of the paired
\* Bluetooth, whatever name, standby time, orientation and power is asked.
C5_AliasNeverWritten ==
    (Len(written) = 4 /\ written[1] = _SET_START /\ written[2] = _SOURCE)
        => (written[4] % 128) \notin AliasCodes

OrientationName(index) == IF index = 1 THEN "L/R" ELSE "R/L"

\* the code the claim gives for a source, standby time and orientation
WireCode(source, t, index) ==
    INPUT_SOURCES_20_MINUTES_LR(source) + 16 * Enumerate(STANDBY_OPTIONS, t)
        + (IF index = 2 THEN 64 ELSE 0)

SettableNames == Range(SourceNames) \ {"Bluetooth_paired"}

Combinations == SettableNames \X Range(STANDBY_OPTIONS) \X {1, 2}

\* C7: the code of (source, standby, orientation) read in the reverse table
\* gives (source, standby, orientation), with the paired Bluetooth read as
\* Bluetooth; the codes of the other sources are pairwise distinct and in
\* 0..127.
C7_TableRoundTrip ==
    /\ codec.pc \in {"encoded", "decoded"}
          => codec.code = WireCode(codec.source, codec.standby, codec.index)
    /\ codec.pc = "decoded"
          => codec.decoded =
                <<IF codec.source = "Bluetooth_paired" THEN "Bluetooth" ELSE codec.source,
                  codec.standby, OrientationName(codec.index)>>
    /\ \A a, b \in Combinations :
          /\ INPUT_SOURCES(a[1])[a[2]][a[3]] \in 0..127
          /\ a # b => INPUT_SOURCES(a[1])[a[2]][a[3]] # INPUT_SOURCES(b[1])[b[2]][b[3]]

\* the R/L code of Wifi with an hour of standby has been read back
C7_Witness ==
    /\ codec.pc = "decoded"
    /\ codec.source = "Wifi" /\ codec.standby = 60 /\ codec.index = 2
    /\ codec.code = 82
    /\ codec.decoded = <<"Wifi", 60, "R/L">>

\* an operation that returned, after one that returned
DoneAfter(op, prev) ==
    /\ ctl.pc = "done" /\ ctl.op = op /\ ctl.result.kind = "ok"
    /\ ctl.prev.op = prev /\ ctl.prev.ok

\* C8: with the controller's operations one after the other, mute writes
\* (v mod 128) + 128 and unmute writes v mod 128 for the speaker's byte v; a
\* mute after a mute leaves the speaker muted at the same level, and an
\* unmute after a mute leaves it unmuted at the level before the mute.
C8_MuteUnmute ==
    /\ (ctl.pc = "done" /\ ctl.op = "mute" /\ ctl.result.kind = "ok")
          => /\ written = COMMANDS_set_volume((ctl.start % 128) + 128)
             /\ dev_volume = (ctl.start % 128) + 128
    /\ (ctl.pc = "done" /\ ctl.op = "unmute" /\ ctl.result.kind = "ok")
          => /\ written = COMMANDS_set_volume(ctl.start % 128)
             /\ dev_volume = ctl.start % 128
    /\ DoneAfter("mute", "mute")
          => (dev_volume >= 128 /\ dev_volume % 128 = ctl.prev.start % 128)
    /\ DoneAfter("unmute", "mute")
          => (dev_volume < 128 /\ dev_volume = ctl.prev.start % 128)

\* a muted speaker was muted again, and one muted at 30 was unmuted
C8_Witness ==
    \/ DoneAfter("mute", "mute") /\ ctl.prev.start = 158 /\ dev_volume = 158
    \/ DoneAfter("unmute", "mute") /\ ctl.prev.start = 30 /\ dev_volume = 30

\* the level a volume change asks for
ChangedLevel ==
    ClampVolume((ctl.start % 128)
        + (IF ctl.op = "increase_volume" THEN volume_step ELSE 0 - volume_step))

\* C9: increase_volume and decrease_volume called while the speaker is muted,
\* and not stopped by the transport, unmute it, set the level a step up or
\* down and return that level.
C9_ChangeVolumeWhileMuted ==
    (ctl.pc = "done" /\ ctl.op \in {"increase_volume", "decrease_volume"}
        /\ ctl.start >= 128 /\ ctl.result.kind # "RetryError")
        => /\ ctl.result.kind = "ok"
           /\ dev_volume = ChangedLevel
           /\ ctl.result.level = ChangedLevel

\* C10: the combined volume query returns the level b mod 128 and the mute
\* flag b >= 128 for the speaker's byte b.
C10_VolumeDecode ==
    (ctl.pc = "done" /\ ctl.op = "get_volume_and_is_muted" /\ ctl.result.kind = "ok")
        => /\ ctl.result.level = ctl.start % 128
           /\ ctl.result.flag = (ctl.start >= 128)
\* turn_on or turn_off is at its first get_state and the speaker reports the
\* power state asked for
AlreadyThere ==
    /\ ctl.pc = "first"
    /\ (dev_source % 128) \in DOMAIN INPUT_SOURCES_RESPONSE
    /\ \/ ctl.op = "turn_on" /\ DeviceIsOn
       \/ ctl.op = "turn_off" /\ ~DeviceIsOn

\* C11: turn_on of a speaker that reports on and turn_off of one that
\* reports off go from the first get_state to the end: no set command is
\* written, no poll is made and the speaker's source byte stays as it is,
\* also when turn_on is given another source.
C11_NoOpWhenAlreadyThere ==
    [][AlreadyThere
          => /\ ctl'.pc \in {"first", "done"}
             /\ ctl'.pc = "done" => ctl'.result.kind \in {"ok", "RetryError"}
             /\ GetAnswered => ctl'.result.kind = "ok"
             /\ written' \in {written, COMMANDS_get_source}
             /\ ~ctl'.acked
             /\ dev_source' = dev_source /\ dev_target' = NoTarget]_vars

\* turn_on("Usb") has returned on a speaker that is on with Aux
C11_Witness ==
    /\ ctl.op = "turn_on" /\ ctl.source = "Usb"
    /\ ctl.pc = "done" /\ ctl.result.kind = "ok"
    /\ DeviceIsOn /\ DecodeState(dev_source).source = "Aux"
    /\ written = COMMANDS_get_source
    /\ ~ctl.acked /\ dev_target = NoTarget

\* C12: set_source(S, on) writes 0x53 0x30 0x81 c with c the code of S under
\* the configured standby time and orientation, and get_state decodes the
\* reply frame 0x52 0x30 c to the query 0x47 0x30 0x80 as source S, on.
C12_WireExchange ==
    /\ (codec.pc = "set" /\ codec.source \in SettableNames)
          => written = <<83, 48, 129,
                         WireCode(codec.source, standby_time,
                                  IF inverse_speaker_mode THEN 2 ELSE 1)>>
    /\ (codec.pc = "done" /\ codec.source \in SettableNames
            /\ codec.reply = <<82, 48, codec.code>>)
          => /\ written = <<71, 48, 128>>
             /\ codec.raised = ""
             /\ codec.state.source = codec.source
             /\ codec.state.is_on

\* open_connection is between its entry and its return or raise
InOpenConnection(t) == task[t].pc \in {"connect", "sleep_refused", "sleep_blocking"}

\* C13: one call of open_connection makes at most _MAX_CONNECTION_RETRIES
\* connection attempts, whatever the outcome of each.
C13_BoundedAttempts ==
    \A t \in Tasks :
        InOpenConnection(t) => task[t].attempts <= _MAX_CONNECTION_RETRIES

\* C14: when the write or the read of a send fails with an I/O error, that
\* step leaves the manager disconnected: the connection closed and the
\* handle cleared, so that the next attempt opens a new connection.
C14_FailureDisconnects ==
    [][\A t \in Tasks :
          (ReadFails(t) \/ DrainDone(t))
              => (handle' = 0 /\ task[t].conn \notin open')]_vars

\* C15: when the read of the reply times out, _send_message returns no data
\* to send_message, which then finds no frame in it (the Exception of
\* _parse_response), and the last-activity time is left as it was.
C15_TimeoutReturnsEmpty ==
    [][\A t \in Tasks :
          ReadTimeout(t) => (task'[t].exc = "Exception" /\ elapsed' = elapsed)]_vars

\* C16: send_message makes at most _MAX_SEND_MESSAGE_TRIES attempts, and
\* when the last one fails it raises what that attempt raised.
C16_LastErrorPropagates ==
    \A t \in Tasks :
        /\ task[t].sm_tries <= _MAX_SEND_MESSAGE_TRIES
        /\ task[t].sm_exc # "" => task[t].sm_exc = task[t].exc

\* the speaker answers the last poll of set_source with the byte of a source
LastPollAnswered ==
    /\ ctl.op = "set_source" /\ ctl.pc = "poll"
    /\ ctl.poll = _MAX_ATTEMPT_TILL_SUCCESS - 1
    /\ (dev_source % 128) \in DOMAIN INPUT_SOURCES_RESPONSE
    /\ GetAnswered

\* C17: a set_source whose set command was acknowledged makes at most
\* _MAX_ATTEMPT_TILL_SUCCESS polls and ends with the last of them, returning
\* or raising; the set command is not written again.
C17_PollsThenEnds ==
    [][/\ (ctl.op = "set_source" /\ ctl.pc = "poll")
             => ctl.poll < _MAX_ATTEMPT_TILL_SUCCESS
       /\ LastPollAnswered => ctl'.pc = "done"
       /\ (ctl.op = "set_source" /\ ctl.acked) => ~SetAcked]_vars

\* the errors that are not transient I/O errors: the offline error of
\* open_connection and the protocol error of _parse_response
NotTransient == {"ConnectionRefusedError", "Exception"}

\* C18: send_message makes no further attempt after the offline error or a
\* protocol error: it waits for a retry only after a transient I/O error.
C18_RetriesOnlyTransient ==
    \A t \in Tasks : task[t].pc = "sm_backoff" => task[t].exc \notin NotTransient

\* C19: a controller has at most one live connection, and every open
\* connection is the one the manager's handle refers to.
C19_OneLiveConnection ==
    /\ Cardinality(open) <= 1
    /\ open \subseteq {handle}

\* task t starts a send with this step: it leaves open_connection for the
\* write of _send_message
StartsSend(t) ==
    /\ task[t].pc \notin {"drain", "read"}
    /\ task'[t].pc \in {"drain", "read"}

\* C20: while the watchdog has closed the writer and waits in wait_closed,
\* a send that starts does not write to that connection but to a new one.
C20_NoWriteWhileClosing ==
    [][\A t \in Tasks :
          (wd_pc = "wait_closed" /\ StartsSend(t))
              => (task'[t].conn # handle /\ task'[t].conn \in open')]_vars

====
